---- MODULE Spec2Model ----
(***************************************************************************)
(* Model of the fact-check HTTP handlers of jpmestres/factcheckme.          *)
(*                                                                         *)
(* Three implementations of the fact-check route live in the repository:   *)
(*   backend/server.js   POST /api/fact-check, line-prefix parser          *)
(*   unnamed/part_001    POST /fact-check, JSON.parse of the completion    *)
(*   unnamed/part_002    POST /api/fact-check, regex JSON extraction       *)
(* Each is modelled as the two halves of its async handler: the part up to *)
(* the awaited completion call and the part that runs once it settles.     *)
(*                                                                         *)
(* JavaScript strings are TLA+ strings; the string functions the handlers  *)
(* use (trim, toLowerCase, startsWith, split, replace with a regex, join,   *)
(* indexOf, match, JSON.parse) are operators that compute what the         *)
(* JavaScript functions compute, character by character.                   *)
(***************************************************************************)
EXTENDS Integers, Sequences, FiniteSets, TLC

(***************************************************************************)
(* Characters and strings                                                  *)
(***************************************************************************)
UpperAlpha == "ABCDEFGHIJKLMNOPQRSTUVWXYZ"
LowerAlpha == "abcdefghijklmnopqrstuvwxyz"
Digits == "0123456789"

\* s.charAt(i - 1): the empty string outside the string
CharAt(s, i) == IF i \in 1..Len(s) THEN SubSeq(s, i, i) ELSE ""

\* s.substring(n): s without its first n characters
Drop(s, n) == IF n >= Len(s) THEN "" ELSE SubSeq(s, n + 1, Len(s))

\* \s of a JavaScript regex and the characters String.prototype.trim removes
IsSpace(c) == c \in {" ", "\t", "\n", "\r", "\f"}

\* \d of a JavaScript regex
IsDigit(c) == \E i \in 1..Len(Digits) : CharAt(Digits, i) = c

LowerChar(c) ==
  IF \E i \in 1..Len(UpperAlpha) : CharAt(UpperAlpha, i) = c
  THEN CharAt(LowerAlpha, CHOOSE i \in 1..Len(UpperAlpha) : CharAt(UpperAlpha, i) = c)
  ELSE c

RECURSIVE ToLowerCase(_)
ToLowerCase(s) ==
  IF s = "" THEN "" ELSE LowerChar(CharAt(s, 1)) \o ToLowerCase(Drop(s, 1))

RECURSIVE TrimStart(_)
TrimStart(s) ==
  IF s # "" /\ IsSpace(CharAt(s, 1)) THEN TrimStart(Drop(s, 1)) ELSE s

RECURSIVE TrimEnd(_)
TrimEnd(s) ==
  IF s # "" /\ IsSpace(CharAt(s, Len(s))) THEN TrimEnd(SubSeq(s, 1, Len(s) - 1)) ELSE s

Trim(s) == TrimEnd(TrimStart(s))

StartsWith(s, p) == Len(s) >= Len(p) /\ SubSeq(s, 1, Len(p)) = p

\* s.split(sep) for a one-character separator
RECURSIVE Split(_, _)
Split(s, sep) ==
  IF \E i \in 1..Len(s) : CharAt(s, i) = sep
  THEN LET i == CHOOSE k \in 1..Len(s) :
                  /\ CharAt(s, k) = sep
                  /\ \A j \in 1..(k - 1) : CharAt(s, j) # sep
       IN  <<SubSeq(s, 1, i - 1)>> \o Split(Drop(s, i), sep)
  ELSE <<s>>

\* arr.join(sep)
RECURSIVE Join(_, _)
Join(arr, sep) ==
  IF arr = <<>> THEN ""
  ELSE IF Len(arr) = 1 THEN arr[1]
  ELSE arr[1] \o sep \o Join(Tail(arr), sep)

\* arr.indexOf(x), 1-based; 0 when absent
IndexOf(arr, x) ==
  IF \E i \in 1..Len(arr) : arr[i] = x
  THEN CHOOSE i \in 1..Len(arr) : arr[i] = x /\ \A j \in 1..(i - 1) : arr[j] # x
  ELSE 0

\* s.replace(/^<prefix>\s*/i, ''), prefix given in lower case
ReplacePrefixCI(s, prefix) ==
  IF StartsWith(ToLowerCase(s), prefix)
  THEN TrimStart(Drop(s, Len(prefix)))
  ELSE s

\* number of leading \d characters of s
RECURSIVE LeadingDigits(_)
LeadingDigits(s) ==
  IF s # "" /\ IsDigit(CharAt(s, 1)) THEN 1 + LeadingDigits(Drop(s, 1)) ELSE 0

\* s.replace(/^\d+\.\s*/, '')
StripNumbering(s) ==
  LET n == LeadingDigits(s)
  IN  IF n >= 1 /\ CharAt(s, n + 1) = "."
      THEN TrimStart(Drop(s, n + 1))
      ELSE s

(***************************************************************************)
(* backend/server.js: the line-prefix parser of POST /api/fact-check       *)
(***************************************************************************)
DefaultSources == "No sources found. Answer based on general knowledge."
MissingGradeMessage == "Invalid response format: Missing grade"
MissingReasoningMessage == "Invalid response format: Missing reasoning"

\* arr.filter(line => line.trim())
RECURSIVE FilterNonBlank(_)
FilterNonBlank(arr) ==
  IF arr = <<>> THEN <<>>
  ELSE IF Trim(Head(arr)) # "" THEN <<Head(arr)>> \o FilterNonBlank(Tail(arr))
  ELSE FilterNonBlank(Tail(arr))

\* const lines = response.split('\n').filter(line => line.trim())
ResponseLines(response) == FilterNonBlank(Split(response, "\n"))

\* the while loop that collects the lines of a Sources: section, from
\* index i (1-based) of lines; the stop test reads the untrimmed line
RECURSIVE CollectSourceLines(_, _)
CollectSourceLines(lines, i) ==
  IF /\ i <= Len(lines)
     /\ ~StartsWith(ToLowerCase(lines[i]), "grade:")
     /\ ~StartsWith(ToLowerCase(lines[i]), "reasoning:")
  THEN LET sourceLine == Trim(lines[i])
       IN  (IF sourceLine # "" THEN <<StripNumbering(sourceLine)>> ELSE <<>>)
             \o CollectSourceLines(lines, i + 1)
  ELSE <<>>

\* ParseLine keeping the first grade instead of the last
ParseLine_FirstGrade(lines, line, acc) ==
  LET trimmedLine == Trim(line)
  IN  IF StartsWith(ToLowerCase(trimmedLine), "grade:")
      THEN IF acc.grade # "" THEN acc
           ELSE [acc EXCEPT !.grade = Trim(ReplacePrefixCI(trimmedLine, "grade:"))]
      ELSE IF StartsWith(ToLowerCase(trimmedLine), "reasoning:")
      THEN [acc EXCEPT !.reasoning = Trim(ReplacePrefixCI(trimmedLine, "reasoning:"))]
      ELSE IF StartsWith(ToLowerCase(trimmedLine), "sources:")
      THEN [acc EXCEPT !.sources =
              Join(CollectSourceLines(lines, IndexOf(lines, line) + 1), ", ")]
      ELSE acc

\* ParseLine recognising the prefixes only as the prompt writes them
ParseLine_CaseSensitive(lines, line, acc) ==
  LET trimmedLine == Trim(line)
  IN  IF StartsWith(trimmedLine, "Grade:")
      THEN [acc EXCEPT !.grade = Trim(ReplacePrefixCI(trimmedLine, "grade:"))]
      ELSE IF StartsWith(trimmedLine, "Reasoning:")
      THEN [acc EXCEPT !.reasoning = Trim(ReplacePrefixCI(trimmedLine, "reasoning:"))]
      ELSE IF StartsWith(trimmedLine, "Sources:")
      THEN [acc EXCEPT !.sources =
              Join(CollectSourceLines(lines, IndexOf(lines, line) + 1), ", ")]
      ELSE acc

\* the body of the for loop, for one line
ParseLine(lines, line, acc) ==
  LET trimmedLine == Trim(line)
  IN  IF StartsWith(ToLowerCase(trimmedLine), "grade:")
      THEN [acc EXCEPT !.grade = Trim(ReplacePrefixCI(trimmedLine, "grade:"))]
      ELSE IF StartsWith(ToLowerCase(trimmedLine), "reasoning:")
      THEN [acc EXCEPT !.reasoning = Trim(ReplacePrefixCI(trimmedLine, "reasoning:"))]
      ELSE IF StartsWith(ToLowerCase(trimmedLine), "sources:")
      THEN [acc EXCEPT !.sources =
              Join(CollectSourceLines(lines, IndexOf(lines, line) + 1), ", ")]
      ELSE acc

\* for (const line of lines) { ... }, from line k on
RECURSIVE ParseLinesFrom(_, _, _)
ParseLinesFrom(lines, k, acc) ==
  IF k > Len(lines) THEN acc
  ELSE ParseLinesFrom(lines, k + 1, ParseLine(lines, lines[k], acc))

\* the fields extracted from a completion: { grade, reasoning, sources }
ParseResponse(response) ==
  ParseLinesFrom(ResponseLines(response), 1,
                 [grade |-> "", reasoning |-> "", sources |-> ""])

(***************************************************************************)
(* JavaScript values and JSON.parse                                        *)
(*                                                                         *)
(* A value is a record [t, v]: t its type, v its content (the text of a    *)
(* string, number or literal, the sequence of an array, the key -> value   *)
(* function of an object).  JSONParse accepts objects, arrays, strings     *)
(* without escape sequences, unsigned integers and the three literals,     *)
(* which covers every completion the model feeds it; the completions       *)
(* contain no backslash, sign, fraction or exponent.                       *)
(***************************************************************************)
JStr(s) == [t |-> "string", v |-> s]
JNum(s) == [t |-> "number", v |-> s]
JBool(s) == [t |-> "boolean", v |-> s]
JNull == [t |-> "null", v |-> "null"]
JUndefined == [t |-> "undefined", v |-> "undefined"]
JArr(a) == [t |-> "array", v |-> a]
JObj(f) == [t |-> "object", v |-> f]

HasKey(b, k) == b.t = "object" /\ k \in DOMAIN b.v

ParseFail == [ok |-> FALSE, val |-> JNull, next |-> 0]
ParseOk(val, next) == [ok |-> TRUE, val |-> val, next |-> next]

\* JSON whitespace
IsJsonSpace(c) == c \in {" ", "\t", "\n", "\r"}

\* index of the first non-whitespace character at or after i
RECURSIVE SkipWS(_, _)
SkipWS(s, i) == IF IsJsonSpace(CharAt(s, i)) THEN SkipWS(s, i + 1) ELSE i

\* index of the closing quote of the string whose content starts at i;
\* 0 when the string is unterminated or holds a character JSON forbids
RECURSIVE StringEnd(_, _)
StringEnd(s, i) ==
  IF i > Len(s) THEN 0
  ELSE IF CharAt(s, i) = "\"" THEN i
  ELSE IF CharAt(s, i) \in {"\n", "\t", "\r", "\f", "\\"} THEN 0
  ELSE StringEnd(s, i + 1)

\* a string literal whose opening quote is at i
ParseString(s, i) ==
  IF CharAt(s, i) # "\"" THEN ParseFail
  ELSE LET e == StringEnd(s, i + 1)
       IN  IF e = 0 THEN ParseFail
           ELSE ParseOk(JStr(SubSeq(s, i + 1, e - 1)), e + 1)

\* an unsigned integer starting at i (no leading zeros)
ParseNumber(s, i) ==
  LET n == IF CharAt(s, i) = "0" THEN 1 ELSE LeadingDigits(Drop(s, i - 1))
  IN  IF n = 0 THEN ParseFail ELSE ParseOk(JNum(SubSeq(s, i, i + n - 1)), i + n)

RECURSIVE ParseValue(_, _)
RECURSIVE ParseMember(_, _, _)
RECURSIVE ParseElement(_, _, _)

\* the members of an object from the key at i on; acc holds those read so far
ParseMember(s, i, acc) ==
  LET key == ParseString(s, i)
  IN  IF ~key.ok THEN ParseFail
      ELSE LET c == SkipWS(s, key.next)
           IN  IF CharAt(s, c) # ":" THEN ParseFail
               ELSE LET val == ParseValue(s, SkipWS(s, c + 1))
                    IN  IF ~val.ok THEN ParseFail
                        ELSE LET m == SkipWS(s, val.next)
                                 acc2 == (key.val.v :> val.val) @@ acc
                             IN  IF CharAt(s, m) = ","
                                 THEN ParseMember(s, SkipWS(s, m + 1), acc2)
                                 ELSE IF CharAt(s, m) = "}"
                                 THEN ParseOk(JObj(acc2), m + 1)
                                 ELSE ParseFail

\* the elements of an array from the value at i on
ParseElement(s, i, acc) ==
  LET val == ParseValue(s, i)
  IN  IF ~val.ok THEN ParseFail
      ELSE LET m == SkipWS(s, val.next)
               acc2 == Append(acc, val.val)
           IN  IF CharAt(s, m) = ","
               THEN ParseElement(s, SkipWS(s, m + 1), acc2)
               ELSE IF CharAt(s, m) = "]"
               THEN ParseOk(JArr(acc2), m + 1)
               ELSE ParseFail

\* the JSON value starting at i
ParseValue(s, i) ==
  LET c == CharAt(s, i)
  IN  IF c = "{"
      THEN LET j == SkipWS(s, i + 1)
           IN  IF CharAt(s, j) = "}" THEN ParseOk(JObj(<<>>), j + 1)
               ELSE ParseMember(s, j, <<>>)
      ELSE IF c = "["
      THEN LET j == SkipWS(s, i + 1)
           IN  IF CharAt(s, j) = "]" THEN ParseOk(JArr(<<>>), j + 1)
               ELSE ParseElement(s, j, <<>>)
      ELSE IF c = "\"" THEN ParseString(s, i)
      ELSE IF IsDigit(c) THEN ParseNumber(s, i)
      ELSE IF StartsWith(Drop(s, i - 1), "true") THEN ParseOk(JBool("true"), i + 4)
      ELSE IF StartsWith(Drop(s, i - 1), "false") THEN ParseOk(JBool("false"), i + 5)
      ELSE IF StartsWith(Drop(s, i - 1), "null") THEN ParseOk(JNull, i + 4)
      ELSE ParseFail

\* JSON.parse(s): ok is FALSE where JSON.parse throws a SyntaxError
JSONParse(s) ==
  LET r == ParseValue(s, SkipWS(s, 1))
  IN  IF r.ok /\ SkipWS(s, r.next) > Len(s) THEN r ELSE ParseFail

\* response.match(/\{.*?\}/s): the text from the first '{' to the first '}'
\* after it, or "" (no match can be empty) when there is none
MatchBraces(s) ==
  IF \E i \in 1..Len(s) : \E j \in (i + 1)..Len(s) : CharAt(s, i) = "{" /\ CharAt(s, j) = "}"
  THEN LET i == CHOOSE a \in 1..Len(s) :
                  CharAt(s, a) = "{" /\ \A b \in 1..(a - 1) : CharAt(s, b) # "{"
           j == CHOOSE a \in (i + 1)..Len(s) :
                  CharAt(s, a) = "}" /\ \A b \in (i + 1)..(a - 1) : CharAt(s, b) # "}"
       IN  SubSeq(s, i, j)
  ELSE ""

(***************************************************************************)
(* Inputs                                                                  *)
(***************************************************************************)
\* longest completion, in fragments, of the validation specification
MaxLines == 3
\* longest list under the header of the sources specification
MaxSourceLines == 4

\* non-empty sequences over S of length at most n
SeqsUpTo(S, n) == UNION {[1..k -> S] : k \in 1..n}

\* values of req.body.text that a client can send
TextInputs ==
  {JUndefined, JNull, JStr(""), JStr("Test statement"), JNum("5")}

\* lines a completion of the validation specification is made of
FieldLines ==
  { "Grade: Truth", "grade: MOSTLY TRUE", "Grade: Probably", "Grade:",
    "Reasoning: seems accurate", "Reasoning:  \r", "Sources:",
    "1. http://a.com", "I cannot verify this claim.", "  " }

\* completions that carry a JSON object, whole or inside prose
JsonCompletions ==
  { "{\"grade\":\"Truth\",\"reasoning\":\"ok\",\"sources\":[\"http://a.com\"]}",
    "Here you go: {\"grade\":\"Truth\",\"reasoning\":\"ok\"}",
    "{\"grade\":\"Truth\"}",
    "{grade: Truth}" }

LineCompletions == {Join(ls, "\n") : ls \in SeqsUpTo(FieldLines, MaxLines)}

\* what the awaited completion call settles with: a text, or a rejection
Resolved(c) == [ok |-> TRUE, content |-> c, message |-> ""]
Rejected(m) == [ok |-> FALSE, content |-> "", message |-> m]

Upstreams ==
  {Resolved(c) : c \in LineCompletions \cup JsonCompletions} \cup {Rejected("API Error")}

\* completions of the sources specification: a header with grade and
\* reasoning, then a list of lines
SourceHeader == "Grade: Mostly True\nReasoning: seems accurate"
SourceLines ==
  { "Sources:", "Sources: http://a.com", "1. http://a.com", "2. http://b.com",
    "1. ", " Grade: Neutral", "Reasoning: y" }

SourceCompletions ==
  {Join(<<SourceHeader>> \o ls, "\n") : ls \in SeqsUpTo(SourceLines, MaxSourceLines)}

SourceUpstreams == {Resolved(c) : c \in SourceCompletions} \cup {Rejected("API Error")}

(***************************************************************************)
(* State                                                                   *)
(***************************************************************************)
\* pc: "idle", "awaiting" (the completion call is pending) or "done"
\* handler: the implementation serving the request
\* text: req.body.text
\* upstream: what the completion call settles with
\* upstreamCalls: completion calls made
\* parseRuns: times the handler started parsing a completion
\* responsesSent: responses written to res
\* status: HTTP status of the response, 0 before it
\* body: JSON body of the response
VARIABLES pc, handler, text, upstream, upstreamCalls, parseRuns, responsesSent, status, body

\* req: method, path and body of the request the server received
VARIABLES req

\* the state of the server
serverVars ==
  <<pc, handler, text, upstream, upstreamCalls, parseRuns, responsesSent, status, body, req>>

\* State of the React client (src/src/App.js and its InputForm):
\* revision: the InputForm that is mounted, "none" when no client runs
\* formText: the text state of InputForm, the value of the input
\* isLoading: the isLoading state of InputForm
\* calls: the invocations of handleSubmit that got past the blank test,
\*   in the order they started
\* submitEvents: submit events that handleSubmit received
\* error, factCheckResponse: the state of App
VARIABLES revision, formText, isLoading, calls, submitEvents, error, factCheckResponse

clientVars == <<revision, formText, isLoading, calls, submitEvents, error, factCheckResponse>>

vars ==
  <<pc, handler, text, upstream, upstreamCalls, parseRuns, responsesSent, status, body, req,
    revision, formText, isLoading, calls, submitEvents, error, factCheckResponse>>

\* !text
Falsy(x) ==
  \/ x.t \in {"undefined", "null"}
  \/ x.t = "string" /\ x.v = ""
  \/ x.t = "number" /\ x.v = "0"
  \/ x.t = "boolean" /\ x.v = "false"

\* res.status(st).json(b)
Respond(st, b) ==
  /\ status' = st
  /\ body' = b
  /\ responsesSent' = responsesSent + 1
  /\ pc' = "done"

\* await openai.chat.completions.create(...)
CallUpstream ==
  /\ upstreamCalls' = upstreamCalls + 1
  /\ pc' = "awaiting"
  /\ UNCHANGED <<status, body, responsesSent>>

\* no request received yet
NoRequest == [method |-> "", path |-> "", body |-> "none"]

\* the routes each server registers: app.get and app.post
Routes(h) ==
  IF h = "backend"
  THEN {[method |-> "GET", path |-> "/health"], [method |-> "POST", path |-> "/api/fact-check"]}
  ELSE IF h = "jsonParse"
  THEN {[method |-> "GET", path |-> "/api/health"], [method |-> "POST", path |-> "/fact-check"]}
  ELSE {[method |-> "GET", path |-> "/api/health"], [method |-> "POST", path |-> "/api/fact-check"]}

\* the POST request that reaches the fact-check handler of server h
FactCheckRequest(h) ==
  [method |-> "POST", body |-> "json",
   path |-> (CHOOSE r \in Routes(h) : r.method = "POST").path]

\* the React client before its first event
ClientInit(revs) ==
  /\ revision \in revs
  /\ formText = ""
  /\ isLoading = FALSE
  /\ calls = <<>>
  /\ submitEvents = 0
  /\ error = JNull
  /\ factCheckResponse = JNull

\* a server that has received no request yet
ServerInit(ups) ==
  /\ req = NoRequest
  /\ pc = "idle"
  /\ handler = "none"
  /\ text = JUndefined
  /\ upstream \in ups
  /\ upstreamCalls = 0
  /\ parseRuns = 0
  /\ responsesSent = 0
  /\ status = 0
  /\ body = JUndefined

InitWith(ups) == ClientInit({"none"}) /\ ServerInit(ups)

Init == InitWith(Upstreams)

InitSources == InitWith(SourceUpstreams)

(***************************************************************************)
(* backend/server.js: POST /api/fact-check                                 *)
(***************************************************************************)
\* message of the TypeError that text.substring(0, 50) throws
SubstringTypeError(x) ==
  IF x.t \in {"undefined", "null"}
  THEN "Cannot read properties of " \o x.v \o " (reading 'substring')"
  ELSE "text.substring is not a function"

\* the catch block: res.status(500).json({ error, details: error.message })
FactCheckError(message) ==
  Respond(500, JObj([error |-> JStr("Failed to fact-check text"),
                     details |-> JStr(message)]))

\* the handler up to the awaited completion call
ApiFactCheck(t) ==
  /\ pc = "idle"
  /\ handler' = "backend"
  /\ req' = FactCheckRequest("backend")
  /\ UNCHANGED clientVars
  /\ text' = t
  /\ IF t.t # "string"
     THEN FactCheckError(SubstringTypeError(t)) /\ UNCHANGED upstreamCalls
     ELSE IF Falsy(t) \/ t.t # "string"
     THEN /\ Respond(400, JObj([error |-> JStr("Text is required and must be a string")]))
          /\ UNCHANGED upstreamCalls
     ELSE CallUpstream
  /\ UNCHANGED <<upstream, parseRuns>>

\* ValidateAndRespond with the reasoning check ahead of the grade check
ValidateAndRespond_ReasoningFirst(p) ==
  IF p.reasoning = "" THEN FactCheckError(MissingReasoningMessage)
  ELSE IF p.grade = "" THEN FactCheckError(MissingGradeMessage)
  ELSE Respond(200, JObj([grade |-> JStr(p.grade),
                          reasoning |-> JStr(p.reasoning),
                          sources |-> JStr(IF p.sources = "" THEN DefaultSources
                                           ELSE p.sources)]))

\* ValidateAndRespond without the reasoning check
ValidateAndRespond_NoReasoningCheck(p) ==
  IF p.grade = "" THEN FactCheckError(MissingGradeMessage)
  ELSE Respond(200, JObj([grade |-> JStr(p.grade),
                          reasoning |-> JStr(p.reasoning),
                          sources |-> JStr(IF p.sources = "" THEN DefaultSources
                                           ELSE p.sources)]))

\* ValidateAndRespond without the default for empty sources
ValidateAndRespond_NoDefault(p) ==
  IF p.grade = "" THEN FactCheckError(MissingGradeMessage)
  ELSE IF p.reasoning = "" THEN FactCheckError(MissingReasoningMessage)
  ELSE Respond(200, JObj([grade |-> JStr(p.grade),
                          reasoning |-> JStr(p.reasoning),
                          sources |-> JStr(p.sources)]))

\* the validation and the response that follow the parsing loop
ValidateAndRespond(p) ==
  IF p.grade = "" THEN FactCheckError(MissingGradeMessage)
  ELSE IF p.reasoning = "" THEN FactCheckError(MissingReasoningMessage)
  ELSE Respond(200, JObj([grade |-> JStr(p.grade),
                          reasoning |-> JStr(p.reasoning),
                          sources |-> JStr(IF p.sources = "" THEN DefaultSources
                                           ELSE p.sources)]))

\* the handler after the completion call resolved
ApiFactCheckResolved ==
  /\ pc = "awaiting"
  /\ handler = "backend"
  /\ upstream.ok
  /\ parseRuns' = parseRuns + 1
  /\ ValidateAndRespond(ParseResponse(upstream.content))
  /\ UNCHANGED <<handler, text, upstream, upstreamCalls, req>>
  /\ UNCHANGED clientVars

\* the handler after the completion call rejected
ApiFactCheckRejected ==
  /\ pc = "awaiting"
  /\ handler = "backend"
  /\ ~upstream.ok
  /\ FactCheckError(upstream.message)
  /\ UNCHANGED <<handler, text, upstream, upstreamCalls, parseRuns, req>>
  /\ UNCHANGED clientVars

(***************************************************************************)
(* unnamed/part_001: POST /fact-check, JSON.parse of the whole completion  *)
(***************************************************************************)
FactCheck(t) ==
  /\ pc = "idle"
  /\ handler' = "jsonParse"
  /\ req' = FactCheckRequest("jsonParse")
  /\ UNCHANGED clientVars
  /\ text' = t
  /\ IF Falsy(t)
     THEN /\ Respond(400, JObj([error |-> JStr("Text is required")]))
          /\ UNCHANGED upstreamCalls
     ELSE CallUpstream
  /\ UNCHANGED <<upstream, parseRuns>>

FactCheckResolved ==
  /\ pc = "awaiting"
  /\ handler = "jsonParse"
  /\ upstream.ok
  /\ parseRuns' = parseRuns + 1
  /\ LET parsedResponse == JSONParse(upstream.content)
     IN  IF parsedResponse.ok
         THEN Respond(200, parsedResponse.val)
         ELSE Respond(500, JObj([error |-> JStr("Invalid response format from OpenAI")]))
  /\ UNCHANGED <<handler, text, upstream, upstreamCalls, req>>
  /\ UNCHANGED clientVars

FactCheckRejected ==
  /\ pc = "awaiting"
  /\ handler = "jsonParse"
  /\ ~upstream.ok
  /\ Respond(500, JObj([error |-> JStr("Failed to process request")]))
  /\ UNCHANGED <<handler, text, upstream, upstreamCalls, parseRuns, req>>
  /\ UNCHANGED clientVars

(***************************************************************************)
(* unnamed/part_002: POST /api/fact-check, regex extraction of a JSON      *)
(* object from the completion                                              *)
(***************************************************************************)
\* parseError.message of the SyntaxError JSON.parse throws
SyntaxErrorMessage == "Unexpected token in JSON"

ApiFactCheckJson(t) ==
  /\ pc = "idle"
  /\ handler' = "jsonMatch"
  /\ req' = FactCheckRequest("jsonMatch")
  /\ UNCHANGED clientVars
  /\ text' = t
  /\ IF Falsy(t)
     THEN /\ Respond(400, JObj([error |-> JStr("Text is required")]))
          /\ UNCHANGED upstreamCalls
     ELSE CallUpstream
  /\ UNCHANGED <<upstream, parseRuns>>

ApiFactCheckJsonResolved ==
  /\ pc = "awaiting"
  /\ handler = "jsonMatch"
  /\ upstream.ok
  /\ parseRuns' = parseRuns + 1
  /\ LET jsonMatch == MatchBraces(upstream.content)
         aiResponse == JSONParse(jsonMatch)
     IN  IF jsonMatch # ""
         THEN IF aiResponse.ok
              THEN Respond(200, aiResponse.val)
              ELSE Respond(500, JObj([error |-> JStr("Failed to parse OpenAI response"),
                                      details |-> JStr(SyntaxErrorMessage)]))
         ELSE Respond(200, JObj([result |-> JStr(upstream.content)]))
  /\ UNCHANGED <<handler, text, upstream, upstreamCalls, req>>
  /\ UNCHANGED clientVars

ApiFactCheckJsonRejected ==
  /\ pc = "awaiting"
  /\ handler = "jsonMatch"
  /\ ~upstream.ok
  /\ Respond(500, JObj([error |-> JStr("Failed to process fact-checking request"),
                        details |-> JStr(upstream.message)]))
  /\ UNCHANGED <<handler, text, upstream, upstreamCalls, parseRuns, req>>
  /\ UNCHANGED clientVars

(***************************************************************************)
(* Specifications                                                          *)
(***************************************************************************)
Next ==
  \/ \E t \in TextInputs : ApiFactCheck(t)
  \/ ApiFactCheckResolved
  \/ ApiFactCheckRejected
  \/ \E t \in TextInputs : FactCheck(t)
  \/ FactCheckResolved
  \/ FactCheckRejected
  \/ \E t \in TextInputs : ApiFactCheckJson(t)
  \/ ApiFactCheckJsonResolved
  \/ ApiFactCheckJsonRejected

\* completions made of field lines and JSON texts
Spec == Init /\ [][Next]_vars

\* completions made of a valid header followed by a list of source lines
SpecSources == InitSources /\ [][Next]_vars

TypeOK ==
  /\ pc \in {"idle", "awaiting", "done"}
  /\ handler \in {"none", "backend", "jsonParse", "jsonMatch"}
  /\ text \in TextInputs
  /\ upstreamCalls \in 0..1
  /\ parseRuns \in 0..1
  /\ responsesSent \in 0..1
  /\ status \in {0, 200, 204, 400, 404, 500}

(***************************************************************************)
(* Vocabulary of the properties                                            *)
(***************************************************************************)
CanonicalGrades == {"Absolutely False", "Mostly False", "Neutral", "Mostly True", "Truth"}

\* the request reached the parsing step of handler h and was answered
Answered(h) == pc = "done" /\ handler = h /\ parseRuns = 1

\* field k of the response body is a string
IsStringField(k) == HasKey(body, k) /\ body.v[k].t = "string"

\* s contains sub
Contains(s, sub) ==
  \E i \in 1..(Len(s) + 1) : StartsWith(Drop(s, i - 1), sub)

\* line l, trimmed and lower-cased, begins with prefix
HasPrefix(l, prefix) == StartsWith(ToLowerCase(Trim(l)), prefix)

IsPrefixLine(l) ==
  HasPrefix(l, "grade:") \/ HasPrefix(l, "reasoning:") \/ HasPrefix(l, "sources:")

\* the non-blank lines of completion c
NonBlankLines(c) ==
  LET all == Split(c, "\n")
  IN  SelectSeq(all, LAMBDA l : Trim(l) # "")

\* the trimmed remainder of the last line of c with the prefix, "" if none
LastValue(c, prefix) ==
  LET ls == NonBlankLines(c)
      I == {i \in 1..Len(ls) : HasPrefix(ls[i], prefix)}
  IN  IF I = {} THEN ""
      ELSE LET m == CHOOSE i \in I : \A j \in I : j <= i
           IN  Trim(Drop(Trim(ls[m]), Len(prefix)))

HasPrefixStructure(c) == \E i \in 1..Len(NonBlankLines(c)) : IsPrefixLine(NonBlankLines(c)[i])

\* a 500 response of backend/server.js whose details are message m
FailedWith(m) ==
  /\ status = 500
  /\ IsStringField("details")
  /\ body.v["details"].v = m

(***************************************************************************)
(* C1: a POST /api/fact-check whose text is missing, empty or not a string *)
(* is answered 400, never 500, and the completion call is not made.        *)
(***************************************************************************)
C1_InvalidTextIs400 ==
  (pc = "done" /\ handler = "backend" /\ (text.t # "string" \/ text.v = ""))
    => (status = 400 /\ upstreamCalls = 0)

(***************************************************************************)
(* C2: in every 200 response of the line-prefix handler, grade is one of   *)
(* the five canonical labels.                                              *)
(***************************************************************************)
C2_GradeIsCanonical ==
  (Answered("backend") /\ status = 200)
    => (IsStringField("grade") /\ body.v["grade"].v \in CanonicalGrades)

(***************************************************************************)
(* C3: when the extracted grade is non-empty and matches no canonical      *)
(* label, the request fails with a failure that carries the raw grade and  *)
(* no 200 response is produced.                                            *)
(***************************************************************************)
UnrecognizedGrade(c) ==
  LET g == LastValue(c, "grade:")
  IN  g # "" /\ \A l \in CanonicalGrades : ToLowerCase(g) # ToLowerCase(l)

C3_UnrecognizedGradeFails ==
  (Answered("backend") /\ UnrecognizedGrade(upstream.content))
    => /\ status = 500
       /\ IsStringField("details")
       /\ body.v["details"].v \notin {MissingGradeMessage, MissingReasoningMessage}
       /\ Contains(body.v["details"].v, LastValue(upstream.content, "grade:"))

(***************************************************************************)
(* C4: every 200 response of a fact-check handler has grade, reasoning and *)
(* sources, each a non-empty string, and a response for a completion that  *)
(* could not be parsed has none of them.                                   *)
(***************************************************************************)
IsNonEmptyStringField(k) == IsStringField(k) /\ body.v[k].v # ""

C4_NoPartialVerdict ==
  (pc = "done" /\ parseRuns = 1)
    => IF status = 200
       THEN \A k \in {"grade", "reasoning", "sources"} : IsNonEmptyStringField(k)
       ELSE \A k \in {"grade", "reasoning", "sources"} : ~HasKey(body, k)

(***************************************************************************)
(* C5: for every completion the line-prefix handler sends exactly one      *)
(* response: 200 with a Verdict, or 500 with one of the parse failures.    *)
(***************************************************************************)
IsVerdict ==
  /\ \A k \in {"grade", "reasoning", "sources"} : IsNonEmptyStringField(k)
  /\ body.v["grade"].v \in CanonicalGrades

IsParseFailure == FailedWith(MissingGradeMessage) \/ FailedWith(MissingReasoningMessage)

C5_ParsingIsTotal ==
  Answered("backend")
    => /\ responsesSent = 1
       /\ \/ status = 200 /\ IsVerdict
          \/ status = 500 /\ IsParseFailure

\* the part of C5 that does not depend on the grade being canonical
OneResponsePerRequest ==
  pc = "done"
    => /\ responsesSent = 1
       /\ status \in {200, 400, 500}
       /\ (handler = "backend" /\ parseRuns = 1 /\ status = 500) => IsParseFailure

(***************************************************************************)
(* C6: a completion with neither a JSON object nor a prefixed line fails   *)
(* with a failure other than the missing-grade one, and is never returned  *)
(* to the client in a 200 response.                                        *)
(***************************************************************************)
NoStructure(c) == MatchBraces(c) = "" /\ ~HasPrefixStructure(c)

C6_NoStructureFound ==
  ((Answered("backend") \/ Answered("jsonMatch")) /\ NoStructure(upstream.content))
    => (status = 500 /\ ~FailedWith(MissingGradeMessage))

(***************************************************************************)
(* C7: when the completion has prefixed lines but no grade value (no       *)
(* Grade: line, or an empty remainder on the last one), the request fails  *)
(* with the missing-grade failure, also when reasoning is missing too.     *)
(***************************************************************************)
C7_MissingGrade ==
  (/\ Answered("backend")
   /\ HasPrefixStructure(upstream.content)
   /\ LastValue(upstream.content, "grade:") = "")
    => FailedWith(MissingGradeMessage)

\* a completion with a Grade: line of empty remainder and no reasoning
C7_Witness ==
  /\ Answered("backend")
  /\ \E i \in 1..Len(NonBlankLines(upstream.content)) :
        HasPrefix(NonBlankLines(upstream.content)[i], "grade:")
  /\ LastValue(upstream.content, "grade:") = ""
  /\ LastValue(upstream.content, "reasoning:") = ""
  /\ FailedWith(MissingGradeMessage)

(***************************************************************************)
(* C8: when a grade is extracted but reasoning is absent or empty after    *)
(* trimming, the request fails with the missing-reasoning failure; in      *)
(* every 200 response reasoning is non-empty and has no surrounding        *)
(* whitespace.                                                             *)
(***************************************************************************)
C8_MissingReasoning ==
  Answered("backend")
    => /\ (/\ LastValue(upstream.content, "grade:") # ""
           /\ LastValue(upstream.content, "reasoning:") = "")
          => FailedWith(MissingReasoningMessage)
       /\ status = 200
          => /\ IsNonEmptyStringField("reasoning")
             /\ Trim(body.v["reasoning"].v) = body.v["reasoning"].v

\* a completion with a grade and a Reasoning: line followed only by whitespace
C8_Witness ==
  /\ Answered("backend")
  /\ LastValue(upstream.content, "grade:") # ""
  /\ \E i \in 1..Len(NonBlankLines(upstream.content)) :
        HasPrefix(NonBlankLines(upstream.content)[i], "reasoning:")
  /\ LastValue(upstream.content, "reasoning:") = ""
  /\ FailedWith(MissingReasoningMessage)

(***************************************************************************)
(* C9: when grade and reasoning are extracted and sources are absent or    *)
(* empty after trimming, the response is 200 and sources is the default    *)
(* message.                                                                *)
(***************************************************************************)
HasSourcesLine(c) ==
  \E i \in 1..Len(NonBlankLines(c)) : HasPrefix(NonBlankLines(c)[i], "sources:")

C9_DefaultSources ==
  (/\ Answered("backend")
   /\ LastValue(upstream.content, "grade:") # ""
   /\ LastValue(upstream.content, "reasoning:") # ""
   /\ \/ ~HasSourcesLine(upstream.content)
      \/ Trim(ParseResponse(upstream.content).sources) = "")
    => /\ status = 200
       /\ IsStringField("sources")
       /\ body.v["sources"].v = DefaultSources

\* a completion with grade, reasoning and a Sources: line that collects nothing
C9_Witness ==
  /\ Answered("backend")
  /\ HasSourcesLine(upstream.content)
  /\ status = 200
  /\ body.v["sources"].v = DefaultSources

(***************************************************************************)
(* C10: under a Sources: line, each list line has its leading ordinal      *)
(* marker stripped, empty lines are dropped, and what remains is joined in *)
(* order with ", ".                                                        *)
(***************************************************************************)
\* c is a header, one Sources: line and a list with no prefixed line
IsSourcesList(c) ==
  LET ls == NonBlankLines(c)
  IN  /\ Len(ls) >= 4
      /\ ToLowerCase(Trim(ls[3])) = "sources:"
      /\ \A i \in 1..Len(ls) : i # 3 => ~HasPrefix(ls[i], "sources:")
      /\ \A i \in 4..Len(ls) : ~IsPrefixLine(ls[i])

\* the list lines, marker stripped, empty ones dropped, joined
ListedSources(c) ==
  LET ls == NonBlankLines(c)
      items == [i \in 1..(Len(ls) - 3) |-> StripNumbering(Trim(ls[i + 3]))]
  IN  Join(SelectSeq(items, LAMBDA x : x # ""), ", ")

C10_SourcesList ==
  (/\ Answered("backend")
   /\ IsSourcesList(upstream.content)
   /\ ListedSources(upstream.content) # "")
    => /\ status = 200
       /\ IsStringField("sources")
       /\ body.v["sources"].v = ListedSources(upstream.content)

(***************************************************************************)
(* C11: the text after the prefix on the Sources: line is part of the      *)
(* sources of the response; a source given only there is not replaced by   *)
(* the default message.                                                    *)
(***************************************************************************)
C11_SourcesLineRemainder ==
  (/\ Answered("backend")
   /\ status = 200
   /\ LastValue(upstream.content, "sources:") # "")
    => /\ IsStringField("sources")
       /\ Contains(body.v["sources"].v, LastValue(upstream.content, "sources:"))

(***************************************************************************)
(* C12: no line that, trimmed and lower-cased, begins with grade:,         *)
(* reasoning: or sources: is part of the sources of the response.          *)
(***************************************************************************)
C12_SourcesStopAtPrefix ==
  (Answered("backend") /\ status = 200)
    => \A i \in 1..Len(NonBlankLines(upstream.content)) :
          IsPrefixLine(NonBlankLines(upstream.content)[i])
            => ~Contains(body.v["sources"].v, Trim(NonBlankLines(upstream.content)[i]))

(***************************************************************************)
(* C13: when a completion has several Grade: lines, the last one decides:  *)
(* its value is the grade of the response, and the request fails with the  *)
(* missing-grade failure when that value is empty.                         *)
(***************************************************************************)
GradeLineCount(c) ==
  Cardinality({i \in 1..Len(NonBlankLines(c)) : HasPrefix(NonBlankLines(c)[i], "grade:")})

C13_LastGradeWins ==
  (Answered("backend") /\ GradeLineCount(upstream.content) >= 2)
    => IF LastValue(upstream.content, "grade:") = ""
       THEN FailedWith(MissingGradeMessage)
       ELSE status = 200
              => /\ IsStringField("grade")
                 /\ body.v["grade"].v = LastValue(upstream.content, "grade:")

\* two Grade: lines of different values, answered with the value of the last
C13_Witness ==
  /\ Answered("backend")
  /\ GradeLineCount(upstream.content) >= 2
  /\ status = 200
  /\ body.v["grade"].v = "Truth"
  /\ \E i \in 1..Len(NonBlankLines(upstream.content)) :
        Trim(NonBlankLines(upstream.content)[i]) = "Grade: Probably"

(***************************************************************************)
(* Completions that carry JSON: serialized verdict objects, and texts      *)
(* that mix a JSON object with prose and prefixed lines                    *)
(***************************************************************************)
\* longest sources array of a serialized verdict
MaxSources == 2
\* longest mixed completion, in fragments
MaxMixed == 3

\* JSON.stringify of a string without quote, backslash or control character
Quote(str) == "\"" \o str \o "\""

\* JSON.stringify({ grade: g, reasoning: r, sources: srcs })
Stringify(g, r, srcs) ==
  "{\"grade\":" \o Quote(g) \o ",\"reasoning\":" \o Quote(r) \o ",\"sources\":["
    \o Join([i \in 1..Len(srcs) |-> Quote(srcs[i])], ",") \o "]}"

RoundTripReasonings == {"ok", "a}b", "{x"}
RoundTripSourceItems == {"http://a.com", "b}"}
RoundTripSources == SeqsUpTo(RoundTripSourceItems, MaxSources)

RoundTripCompletions ==
  {Stringify(g, r, srcs) : g \in {"Absolutely False", "Mostly False", "Neutral", "Mostly True", "Truth"},
                           r \in RoundTripReasonings, srcs \in RoundTripSources}

VerdictObject == "{\"grade\":\"Truth\",\"reasoning\":\"ok\"}"

MixedLines ==
  { VerdictObject, "Here you go: " \o VerdictObject, "Grade: Mostly False",
    "Reasoning: from the lines", "{not json}", "Hope this {helps}." }

MixedCompletions == {Join(ls, "\n") : ls \in SeqsUpTo(MixedLines, MaxMixed)}

JsonUpstreams ==
  {Resolved(c) : c \in RoundTripCompletions \cup MixedCompletions} \cup {Rejected("API Error")}

InitJson == InitWith(JsonUpstreams)

\* completions that are or contain JSON
SpecJson == InitJson /\ [][Next]_vars

\* the substrings of c that parse as an object with grade and reasoning strings
VerdictObjectsIn(c) ==
  LET opens == {i \in 1..Len(c) : CharAt(c, i) = "{"}
      closes == {j \in 1..Len(c) : CharAt(c, j) = "}"}
      IsVerdictText(str) ==
        LET p == JSONParse(str)
        IN  /\ p.ok
            /\ HasKey(p.val, "grade") /\ p.val.v["grade"].t = "string"
            /\ HasKey(p.val, "reasoning") /\ p.val.v["reasoning"].t = "string"
  IN  {str \in {SubSeq(c, i, j) : i \in opens, j \in closes} : IsVerdictText(str)}

\* the object a completion with one verdict object text carries
VerdictObjectIn(c) == JSONParse(CHOOSE str \in VerdictObjectsIn(c) : TRUE).val

\* the 200 response carries grade g and reasoning r
RespondedWith(g, r) ==
  /\ status = 200
  /\ IsStringField("grade") /\ body.v["grade"].v = g
  /\ IsStringField("reasoning") /\ body.v["reasoning"].v = r

(***************************************************************************)
(* C14: when a completion holds both a JSON object with grade and          *)
(* reasoning and Grade:/Reasoning: lines, the response carries the fields  *)
(* of the JSON object.                                                     *)
(***************************************************************************)
C14_JsonWins ==
  (/\ Answered("backend") \/ Answered("jsonMatch")
   /\ VerdictObjectsIn(upstream.content) # {}
   /\ LastValue(upstream.content, "grade:") # ""
   /\ LastValue(upstream.content, "reasoning:") # "")
    => RespondedWith(VerdictObjectIn(upstream.content).v["grade"].v,
                     VerdictObjectIn(upstream.content).v["reasoning"].v)

(***************************************************************************)
(* C15: parsing the serialization of { grade: g, reasoning: r, sources }   *)
(* with g canonical returns g, r and the sources joined into one string,   *)
(* also when r or a source contains a brace.                               *)
(***************************************************************************)
C15_JsonRoundTrip ==
  \A g \in CanonicalGrades, r \in RoundTripReasonings, srcs \in RoundTripSources :
    (/\ Answered("jsonParse") \/ Answered("jsonMatch")
     /\ upstream.content = Stringify(g, r, srcs))
      => /\ RespondedWith(g, r)
         /\ IsStringField("sources")
         /\ body.v["sources"].v = Join(srcs, ", ")

(***************************************************************************)
(* C16: a JSON object with grade and reasoning surrounded by prose is      *)
(* parsed: the response carries its fields whatever the prose.             *)
(***************************************************************************)
C16_EmbeddedJson ==
  (/\ Answered("backend") \/ Answered("jsonMatch")
   /\ VerdictObjectsIn(upstream.content) # {}
   /\ upstream.content \notin VerdictObjectsIn(upstream.content)
   /\ ~HasPrefixStructure(upstream.content))
    => RespondedWith(VerdictObjectIn(upstream.content).v["grade"].v,
                     VerdictObjectIn(upstream.content).v["reasoning"].v)

(***************************************************************************)
(* C17: when the first brace-delimited substring is not valid JSON and     *)
(* the completion has Grade: and Reasoning: lines, the request succeeds    *)
(* with the values of those lines.                                         *)
(***************************************************************************)
C17_FallbackChain ==
  (/\ Answered("jsonMatch")
   /\ MatchBraces(upstream.content) # ""
   /\ ~JSONParse(MatchBraces(upstream.content)).ok
   /\ LastValue(upstream.content, "grade:") \in CanonicalGrades
   /\ LastValue(upstream.content, "reasoning:") # "")
    => RespondedWith(LastValue(upstream.content, "grade:"),
                     LastValue(upstream.content, "reasoning:"))

(***************************************************************************)
(* C19: when the completion call fails, the response is 500 with the error *)
(* 'Failed to process fact-checking request' and a details field, a body   *)
(* that differs from the one of a parse failure, and no parsing runs.      *)
(***************************************************************************)
UpstreamFailureError == "Failed to process fact-checking request"

\* the error texts the handlers send when a completion cannot be parsed
ParseFailureErrors == {"Failed to fact-check text", "Failed to parse OpenAI response"}

C19_UpstreamFailure ==
  (/\ pc = "done"
   /\ handler \in {"backend", "jsonMatch"}
   /\ upstreamCalls = 1
   /\ ~upstream.ok)
    => /\ status = 500
       /\ parseRuns = 0
       /\ IsStringField("details")
       /\ IsStringField("error")
       /\ body.v["error"].v = UpstreamFailureError
       /\ body.v["error"].v \notin ParseFailureErrors

(***************************************************************************)
(* C20: a grade that matches a canonical label up to letter case is stored *)
(* as the canonical label: "mostly true", "MOSTLY TRUE" and "Mostly True"  *)
(* give the same grade.                                                    *)
(***************************************************************************)
C20_CanonicalCasing ==
  \A l \in CanonicalGrades :
    (/\ Answered("backend")
     /\ status = 200
     /\ ToLowerCase(LastValue(upstream.content, "grade:")) = ToLowerCase(l))
      => (IsStringField("grade") /\ body.v["grade"].v = l)

(***************************************************************************)
(* Completions whose sections come in every order and letter-casing        *)
(***************************************************************************)
OrderGrade == "Mostly True"
OrderReasoning == "seems accurate"

\* the three sections as the prompt asks for them
CanonicalSections ==
  << "Grade: " \o OrderGrade, "Reasoning: " \o OrderReasoning, "Sources:\n1. http://a.com" >>

\* the same sections with other casings and spacings of the prefix
SectionVariants ==
  << { CanonicalSections[1], "grade: " \o OrderGrade, "GRADE:" \o OrderGrade,
       "  gRaDe:   " \o OrderGrade \o "  " },
     { CanonicalSections[2], "reasoning: " \o OrderReasoning, "REASONING:" \o OrderReasoning,
       "\tReasoning:  " \o OrderReasoning \o "\r" },
     { CanonicalSections[3], "SOURCES:\n1. http://a.com" } >>

\* the orderings of the sections
SectionOrders ==
  {o \in [DOMAIN CanonicalSections -> DOMAIN CanonicalSections] :
     \A i, j \in DOMAIN o : o[i] = o[j] => i = j}

OrderCompletions ==
  { Join([k \in DOMAIN o |-> <<g, r, src>>[o[k]]], "\n") :
      o \in SectionOrders, g \in SectionVariants[1],
      r \in SectionVariants[2], src \in SectionVariants[3] }

CanonicalCompletion == Join(CanonicalSections, "\n")

OrderUpstreams == {Resolved(c) : c \in OrderCompletions} \cup {Rejected("API Error")}

InitOrder == InitWith(OrderUpstreams)

\* requests whose completion has the three sections in some order and casing
SpecOrder == InitOrder /\ [][Next]_vars

(***************************************************************************)
(* C21: the prefixes are recognised in every letter-casing and the         *)
(* sections in every order: the grade and the reasoning of the response    *)
(* are the trimmed remainders of their lines, the same as for the          *)
(* canonical ordering and casing.                                          *)
(***************************************************************************)
C21_PrefixOrderAndCase ==
  (Answered("backend") /\ upstream.content \in OrderCompletions)
    => /\ status = 200
       /\ IsStringField("grade")
       /\ IsStringField("reasoning")
       /\ body.v["grade"].v = OrderGrade
       /\ body.v["reasoning"].v = OrderReasoning
       /\ body.v["grade"].v = LastValue(CanonicalCompletion, "grade:")
       /\ body.v["reasoning"].v = LastValue(CanonicalCompletion, "reasoning:")

\* sources first, then reasoning, then grade, none in the prompt's casing
C21_Witness ==
  /\ Answered("backend")
  /\ upstream.content =
       "SOURCES:\n1. http://a.com\nREASONING:seems accurate\n  gRaDe:   Mostly True  "
  /\ status = 200
  /\ body.v["grade"].v = OrderGrade
  /\ body.v["reasoning"].v = OrderReasoning

(***************************************************************************)
(* C30: the sources of the response are built from the lines that follow   *)
(* the last Sources: line of the completion, also when an earlier line     *)
(* has the same text; never from the lines that follow the first one.      *)
(***************************************************************************)
\* positions, in the filtered lines of c, of the lines with the sources: prefix
SourcesPositions(c) ==
  {i \in 1..Len(ResponseLines(c)) : HasPrefix(ResponseLines(c)[i], "sources:")}

LastSourcesPosition(c) ==
  CHOOSE i \in SourcesPositions(c) : \A j \in SourcesPositions(c) : j <= i

\* the list collected from the lines after position i, or the default message
SourcesAfter(c, i) ==
  LET list == Join(CollectSourceLines(ResponseLines(c), i + 1), ", ")
  IN  IF list = "" THEN DefaultSources ELSE list

C30_SourcesFromOwnPosition ==
  (/\ Answered("backend")
   /\ status = 200
   /\ SourcesPositions(upstream.content) # {})
    => /\ IsStringField("sources")
       /\ body.v["sources"].v =
            SourcesAfter(upstream.content, LastSourcesPosition(upstream.content))

(***************************************************************************)
(* The middleware chain of the servers: cors, express.json(), the routes,  *)
(* the 404 handler and the error-handling middleware                       *)
(***************************************************************************)
Servers == {"backend", "jsonParse", "jsonMatch"}
Methods == {"GET", "HEAD", "POST", "PUT", "OPTIONS"}
Paths == {"/health", "/api/health", "/api/fact-check", "/fact-check", "/api/nonexistent"}
\* what express.json() finds in the request: no body, a JSON text, or a
\* text that is not JSON
Bodies == {"none", "json", "malformed"}

\* Express runs the handler of a GET route for a HEAD request too
MatchesRoute_AnyMethod(r, m, p) == p = r.path

MatchesRoute(r, m, p) ==
  /\ p = r.path
  /\ m = r.method \/ (m = "HEAD" /\ r.method = "GET")

\* a request that ends in a middleware or a route other than fact-check
Receive(h, m, p, b) ==
  /\ pc = "idle"
  /\ handler' = h
  /\ req' = [method |-> m, path |-> p, body |-> b]
  /\ UNCHANGED <<text, upstream, upstreamCalls, parseRuns>>
  /\ UNCHANGED clientVars

\* cors(corsOptions): an OPTIONS request is answered with
\* optionsSuccessStatus and goes no further
Preflight(h, p, b) ==
  /\ Receive(h, "OPTIONS", p, b)
  /\ Respond(204, JUndefined)

\* express.json() passes a SyntaxError to next(): the error-handling
\* middleware of backend/server.js answers 500, the default handler of
\* Express, in the servers that define none, answers with the error's 400
BodyParseError(h, m, p) ==
  /\ m # "OPTIONS"
  /\ Receive(h, m, p, "malformed")
  /\ IF h = "backend"
     THEN Respond(500, JObj([error |-> JStr("Internal server error")]))
     ELSE Respond(400, JStr("SyntaxError"))

\* app.get('/health') and app.get('/api/health')
Health(h, m, p, b) ==
  /\ m # "OPTIONS"
  /\ b # "malformed"
  /\ \E r \in Routes(h) : r.method = "GET" /\ MatchesRoute(r, m, p)
  /\ Receive(h, m, p, b)
  /\ IF h = "backend"
     THEN Respond(200, JObj([status |-> JStr("ok"), timestamp |-> JStr("toISOString")]))
     ELSE Respond(200, JObj([status |-> JStr("ok")]))

\* app.use((req, res) => res.status(404).json({ error: 'Not Found' }))
NotFound(h, m, p, b) ==
  /\ m # "OPTIONS"
  /\ b # "malformed"
  /\ ~\E r \in Routes(h) : MatchesRoute(r, m, p)
  /\ Receive(h, m, p, b)
  /\ Respond(404, JObj([error |-> JStr("Not Found")]))

NextRoutes ==
  \/ Next
  \/ \E h \in Servers, p \in Paths, b \in Bodies : Preflight(h, p, b)
  \/ \E h \in Servers, m \in Methods, p \in Paths : BodyParseError(h, m, p)
  \/ \E h \in Servers, m \in Methods, p \in Paths, b \in Bodies : Health(h, m, p, b)
  \/ \E h \in Servers, m \in Methods, p \in Paths, b \in Bodies : NotFound(h, m, p, b)

RouteUpstreams ==
  { Resolved("Grade: Truth\nReasoning: seems accurate"),
    Resolved(VerdictObject),
    Rejected("API Error") }

InitRoutes == InitWith(RouteUpstreams)

\* requests of every method and path, to each of the servers
SpecRoutes == InitRoutes /\ [][NextRoutes]_vars

(***************************************************************************)
(* C26: every request whose method and path match no registered route      *)
(* gets 404 with the body {error: 'Not Found'} and reaches neither the     *)
(* fact-check handler nor the completion call.                             *)
(***************************************************************************)
\* the server registers a route with this method and this path
Registered(h, m, p) == \E r \in Routes(h) : r.method = m /\ r.path = p

IsNotFound ==
  /\ status = 404
  /\ body = JObj([error |-> JStr("Not Found")])
  /\ text = JUndefined
  /\ upstreamCalls = 0
  /\ parseRuns = 0

Revisions == {"InputForm", "part_004"}

\* handleSubmit invocations in one run of the client
MaxSubmits == 2

\* values the user gives the input
FormTexts == {"", "  ", "Test input"}

\* a response body with a grade, as the servers send it
Verdict(g) ==
  JObj([grade |-> JStr(g), reasoning |-> JStr("Test reasoning"), sources |-> JStr("Test sources")])

\* bodies of OK responses: a verdict, an object without grade (part_002's
\* raw result), and the value null, which part_001 sends when the
\* completion is the JSON text null
OkBodies ==
  {Verdict(g) : g \in CanonicalGrades}
    \cup {JObj([result |-> JStr("No grade available")]), JNull}

\* what a fetch settles with: a response, OK or not, or a rejection;
\* text is the body text of a response that is not OK, or the message of
\* the rejection
FetchOutcomes ==
  {[kind |-> "ok", status |-> "200", data |-> d, text |-> ""] : d \in OkBodies}
    \cup {[kind |-> "notOk", status |-> "500", data |-> JUndefined,
           text |-> "{\"error\":\"Failed to fact-check text\"}"],
          [kind |-> "reject", status |-> "", data |-> JUndefined, text |-> "Failed to fetch"]}

\* what the fetch of the health route settles with
HealthOutcomes ==
  {[kind |-> "ok", status |-> "200", data |-> JObj([status |-> JStr("ok")]), text |-> ""],
   [kind |-> "notOk", status |-> "404", data |-> JUndefined, text |-> "{\"error\":\"Not Found\"}"],
   [kind |-> "reject", status |-> "", data |-> JUndefined, text |-> "Failed to fetch"]}

NoResponse == [kind |-> "none", status |-> "", data |-> JUndefined, text |-> ""]

\* disabled={isLoading} of the input, disabled={!text.trim() || isLoading}
\* of the button
InputDisabled == isLoading
ButtonDisabled == Trim(formText) = "" \/ isLoading

(***************************************************************************)
(* App                                                                     *)
(***************************************************************************)
\* getBackgroundColor(grade) of App.js
GetBackgroundColor(grade) ==
  IF grade = JStr("Absolutely False") THEN "#dc3545"
  ELSE IF grade = JStr("Mostly False") THEN "#ff6b6b"
  ELSE IF grade = JStr("Neutral") THEN "#ffd93d"
  ELSE IF grade = JStr("Mostly True") THEN "#6bff6b"
  ELSE IF grade = JStr("Truth") THEN "#28a745"
  ELSE "#ffffff"

\* x?.k
OptionalField(x, k) == IF HasKey(x, k) THEN x.v[k] ELSE JUndefined

\* style.backgroundColor of the main container
BackgroundColor == GetBackgroundColor(OptionalField(factCheckResponse, "grade"))

\* {error && <Alert>}, {factCheckResponse && !error && <Card>}
AlertShown == ~Falsy(error)
CardShown == ~Falsy(factCheckResponse) /\ Falsy(error)

\* message of the TypeError that response.error throws
ErrorTypeError(x) == "Cannot read properties of " \o x.v \o " (reading 'error')"

\* handleFactCheckResponse in which an error leaves the earlier result
HandleFactCheckResponse_KeepsResult(response) ==
  IF response.t \in {"null", "undefined"}
  THEN [threw |-> TRUE, message |-> ErrorTypeError(response),
        error |-> error, factCheckResponse |-> factCheckResponse]
  ELSE IF ~Falsy(OptionalField(response, "error"))
  THEN [threw |-> FALSE, message |-> "",
        error |-> response.v["error"], factCheckResponse |-> factCheckResponse]
  ELSE [threw |-> FALSE, message |-> "",
        error |-> JNull, factCheckResponse |-> response]

\* handleFactCheckResponse(response): the state of App after the call, or
\* the TypeError it throws
HandleFactCheckResponse(response) ==
  IF response.t \in {"null", "undefined"}
  THEN [threw |-> TRUE, message |-> ErrorTypeError(response),
        error |-> error, factCheckResponse |-> factCheckResponse]
  ELSE IF ~Falsy(OptionalField(response, "error"))
  THEN [threw |-> FALSE, message |-> "",
        error |-> response.v["error"], factCheckResponse |-> JNull]
  ELSE [threw |-> FALSE, message |-> "",
        error |-> JNull, factCheckResponse |-> response]

(***************************************************************************)
(* InputForm: handleSubmit, one action per await                           *)
(*                                                                         *)
(* A call of handleSubmit is a record: pc the await it stands at           *)
(* ("health", "healthJson", "fetch", "errorText", "json") or "done", text  *)
(* the text it read, health and response what its fetches of the health    *)
(* and of the fact-check route settled with, gets and posts the requests   *)
(* it sent to the two routes, onSubmits the arguments it passed to         *)
(* onSubmit.                                                               *)
(***************************************************************************)
\* the call that starts when handleSubmit gets past the blank test: the
\* health-check revision fetches the health route first
NewCall ==
  [pc |-> IF revision = "part_004" THEN "health" ELSE "fetch",
   text |-> formText,
   health |-> NoResponse,
   response |-> NoResponse,
   gets |-> IF revision = "part_004" THEN 1 ELSE 0,
   posts |-> IF revision = "part_004" THEN 0 ELSE 1,
   onSubmits |-> <<>>]

ClientServerIdle == UNCHANGED serverVars

\* onChange of the input; a disabled input takes no typing
SetText(v) ==
  /\ revision # "none"
  /\ ~InputDisabled
  /\ v # formText
  /\ formText' = v
  /\ UNCHANGED <<revision, isLoading, calls, submitEvents, error, factCheckResponse>>
  /\ ClientServerIdle

\* handleSubmit, up to its first await
HandleSubmit ==
  /\ revision # "none"
  /\ submitEvents < MaxSubmits
  /\ submitEvents' = submitEvents + 1
  /\ IF Trim(formText) = ""
     THEN UNCHANGED <<isLoading, calls>>
     ELSE /\ isLoading' = TRUE
          /\ calls' = Append(calls, NewCall)
  /\ UNCHANGED <<revision, formText, error, factCheckResponse>>
  /\ ClientServerIdle

\* a click on the submit button; a disabled button submits nothing
ClickSubmit == ~ButtonDisabled /\ HandleSubmit

\* a submit event dispatched on the form element itself
SubmitForm == revision \in Revisions /\ HandleSubmit

\* the catch block and the finally block of call c, the i-th:
\* onSubmit({ error: message })
Fail(i, c, message) ==
  LET arg == JObj([error |-> JStr(message)])
      app == HandleFactCheckResponse(arg)
  IN  /\ calls' = [calls EXCEPT ![i] = [c EXCEPT !.pc = "done",
                                                 !.onSubmits = Append(@, arg)]]
      /\ error' = app.error
      /\ factCheckResponse' = app.factCheckResponse
      /\ isLoading' = FALSE

\* onSubmit(data) inside the try block, then the finally block; when
\* onSubmit throws, the catch block calls it again with the error
Deliver(i, data) ==
  LET app == HandleFactCheckResponse(data)
      arg == JObj([error |-> JStr(app.message)])
      again == HandleFactCheckResponse(arg)
  IN  IF app.threw
      THEN /\ calls' = [calls EXCEPT ![i].pc = "done",
                                     ![i].onSubmits = @ \o <<data, arg>>]
           /\ error' = again.error
           /\ factCheckResponse' = again.factCheckResponse
           /\ isLoading' = FALSE
      ELSE /\ calls' = [calls EXCEPT ![i].pc = "done",
                                     ![i].onSubmits = Append(@, data)]
           /\ error' = app.error
           /\ factCheckResponse' = app.factCheckResponse
           /\ isLoading' = FALSE

\* HealthFailure that does not test healthCheck.ok
HealthFailure_IgnoresStatus(o) ==
  IF o.kind = "reject" THEN o.text ELSE ""

\* the message of the error the health check ends in, "" when it passes
HealthFailure(o) ==
  IF o.kind = "reject" THEN o.text
  ELSE IF o.kind # "ok" THEN "Server is not responding"
  ELSE ""

\* await fetch(.../health) settles
HealthSettles(i, o) ==
  /\ i \in DOMAIN calls
  /\ calls[i].pc = "health"
  /\ IF HealthFailure(o) # ""
     THEN Fail(i, [calls[i] EXCEPT !.health = o], HealthFailure(o))
     ELSE /\ calls' = [calls EXCEPT ![i].pc = "healthJson", ![i].health = o]
          /\ UNCHANGED <<isLoading, error, factCheckResponse>>
  /\ UNCHANGED <<revision, formText, submitEvents>>
  /\ ClientServerIdle

\* await healthCheck.json() settles, and the fact-check request is sent
HealthJsonSettles(i) ==
  /\ i \in DOMAIN calls
  /\ calls[i].pc = "healthJson"
  /\ calls' = [calls EXCEPT ![i].pc = "fetch", ![i].posts = @ + 1]
  /\ UNCHANGED <<revision, formText, isLoading, submitEvents, error, factCheckResponse>>
  /\ ClientServerIdle

\* await fetch(.../fact-check) settles
FetchSettles(i, o) ==
  /\ i \in DOMAIN calls
  /\ calls[i].pc = "fetch"
  /\ IF o.kind = "reject"
     THEN Fail(i, [calls[i] EXCEPT !.response = o], o.text)
     ELSE IF o.kind # "ok" /\ revision = "InputForm"
     THEN Fail(i, [calls[i] EXCEPT !.response = o], "Failed to check facts")
     ELSE /\ calls' = [calls EXCEPT ![i].pc = IF o.kind = "ok" THEN "json" ELSE "errorText",
                                    ![i].response = o]
          /\ UNCHANGED <<isLoading, error, factCheckResponse>>
  /\ UNCHANGED <<revision, formText, submitEvents>>
  /\ ClientServerIdle

\* await response.text() settles, in the health-check revision
ErrorTextSettles(i) ==
  /\ i \in DOMAIN calls
  /\ calls[i].pc = "errorText"
  /\ Fail(i, calls[i], "Failed to check facts: " \o calls[i].response.status
                         \o " " \o calls[i].response.text)
  /\ UNCHANGED <<revision, formText, submitEvents>>
  /\ ClientServerIdle

\* await response.json() settles
JsonSettles(i) ==
  /\ i \in DOMAIN calls
  /\ calls[i].pc = "json"
  /\ Deliver(i, calls[i].response.data)
  /\ UNCHANGED <<revision, formText, submitEvents>>
  /\ ClientServerIdle

NextForm ==
  \/ \E v \in FormTexts : SetText(v)
  \/ ClickSubmit
  \/ SubmitForm
  \/ \E i \in 1..MaxSubmits, o \in HealthOutcomes : HealthSettles(i, o)
  \/ \E i \in 1..MaxSubmits : HealthJsonSettles(i)
  \/ \E i \in 1..MaxSubmits, o \in FetchOutcomes : FetchSettles(i, o)
  \/ \E i \in 1..MaxSubmits : ErrorTextSettles(i)
  \/ \E i \in 1..MaxSubmits : JsonSettles(i)

InitForm == ClientInit(Revisions) /\ ServerInit({Rejected("API Error")})

\* the client, with the responses of its requests drawn from FetchOutcomes
SpecForm == InitForm /\ [][NextForm]_vars

(***************************************************************************)
(* Vocabulary of the client properties                                     *)
(***************************************************************************)
Blank(str) == Trim(str) = ""

\* call i of handleSubmit has not finished
Pending(i) == calls[i].pc # "done"

\* the request of call i has not settled
RequestInFlight(i) == calls[i].pc \in {"health", "healthJson", "fetch"}

\* call i waits for the response of its POST to the fact-check route
FactCheckInFlight(i) == calls[i].pc = "fetch"

ErrorArg(message) == JObj([error |-> JStr(message)])

(***************************************************************************)
(* C22: the submit button is disabled exactly when the input is blank or   *)
(* a request is in flight, and a submit event with a blank input sends no  *)
(* request and does not call onSubmit.                                     *)
(***************************************************************************)
C22_ButtonDisabled ==
  revision \in Revisions =>
    /\ ButtonDisabled <=> (Blank(formText) \/ \E i \in DOMAIN calls : Pending(i))
    /\ \A i \in DOMAIN calls : ~Blank(calls[i].text)
    /\ Len(calls) <= submitEvents

(***************************************************************************)
(* C23: from the start of a submission until its request settles,          *)
(* isLoading is true and the input and the button are disabled; once       *)
(* every submission has finished, isLoading is false and the input is      *)
(* enabled again.                                                          *)
(***************************************************************************)
C23_LoadingLifecycle ==
  revision \in Revisions =>
    /\ \A i \in DOMAIN calls :
         RequestInFlight(i) => (isLoading /\ InputDisabled /\ ButtonDisabled)
    /\ (\A i \in DOMAIN calls : ~Pending(i)) => (~isLoading /\ ~InputDisabled)

(***************************************************************************)
(* C24: a submission of non-blank text calls onSubmit exactly once: with   *)
(* the parsed body when the response is OK, with {error: 'Failed to check  *)
(* facts'} when it is not OK, with {error: <message>} when fetch rejects.  *)
(***************************************************************************)
ExpectedArg(o) ==
  IF o.kind = "ok" THEN o.data
  ELSE IF o.kind = "notOk" THEN ErrorArg("Failed to check facts")
  ELSE ErrorArg(o.text)

C24_OnSubmitOnce ==
  revision = "InputForm" =>
    \A i \in DOMAIN calls :
      /\ Len(calls[i].onSubmits) <= 1
      /\ ~Pending(i) => calls[i].onSubmits = <<ExpectedArg(calls[i].response)>>

(***************************************************************************)
(* C25: the background colour of the main container is #8B0000, #FF6B6B,   *)
(* #FFD700, #90EE90 or #32CD32 for the five grades of the last successful  *)
(* response, and #ffffff initially, without grade and after an error.      *)
(***************************************************************************)
\* the colours the tests of App expect
ExpectedColor(grade) ==
  IF grade = JStr("Absolutely False") THEN "#8B0000"
  ELSE IF grade = JStr("Mostly False") THEN "#FF6B6B"
  ELSE IF grade = JStr("Neutral") THEN "#FFD700"
  ELSE IF grade = JStr("Mostly True") THEN "#90EE90"
  ELSE IF grade = JStr("Truth") THEN "#32CD32"
  ELSE "#ffffff"

\* colours are compared as CSS does, whatever the case of the hex digits
C25_BackgroundColor ==
  revision \in Revisions =>
    ToLowerCase(BackgroundColor)
      = ToLowerCase(ExpectedColor(OptionalField(factCheckResponse, "grade")))

(***************************************************************************)
(* C27: in App, error and factCheckResponse are never both non-null: a     *)
(* response with an error sets error and clears the result, a response     *)
(* without one sets the result and clears error, so that only the latest   *)
(* response is displayed.                                                  *)
(***************************************************************************)
\* the last argument call c passed to onSubmit
LastArg(c) == c.onSubmits[Len(c.onSubmits)]

\* a call that finishes leaves in App what its last onSubmit delivered
LatestResponseDisplayed ==
  \A i \in DOMAIN calls :
    (Pending(i) /\ calls'[i].pc = "done") =>
      IF ~Falsy(OptionalField(LastArg(calls'[i]), "error"))
      THEN error' = LastArg(calls'[i]).v["error"] /\ factCheckResponse' = JNull
      ELSE error' = JNull /\ factCheckResponse' = LastArg(calls'[i])

C27_ErrorXorResult ==
  /\ [](~(error # JNull /\ factCheckResponse # JNull))
  /\ [][LatestResponseDisplayed]_vars

\* a verdict was displayed, then the next submission failed: the error is
\* displayed and the verdict is gone
C27_Witness ==
  /\ Len(calls) = 2
  /\ calls[1].onSubmits = <<Verdict("Truth")>>
  /\ calls[2].pc = "done"
  /\ calls[2].response.kind = "notOk"
  /\ error # JNull
  /\ factCheckResponse = JNull
  /\ AlertShown
  /\ ~CardShown

(***************************************************************************)
(* C28: at most one fact-check request of an InputForm is in flight,       *)
(* whatever submit events arrive, also while a request is pending.         *)
(***************************************************************************)
C28_OneRequestInFlight ==
  \A i, j \in DOMAIN calls :
    (FactCheckInFlight(i) /\ FactCheckInFlight(j)) => i = j

(***************************************************************************)
(* C29: in the health-check revision the POST to the fact-check route is   *)
(* sent only after the GET to the health route completed with an OK        *)
(* status; when the health check is not OK or rejects, no fact-check       *)
(* request is sent and onSubmit receives {error: 'Server is not            *)
(* responding'} or the message of the rejection.                           *)
(***************************************************************************)
C29_HealthFirst ==
  revision = "part_004" =>
    \A i \in DOMAIN calls :
      /\ calls[i].posts > 0 => calls[i].health.kind = "ok"
      /\ calls[i].health.kind \in {"notOk", "reject"} =>
           /\ calls[i].pc = "done"
           /\ calls[i].posts = 0
           /\ calls[i].onSubmits =
                << IF calls[i].health.kind = "notOk"
                   THEN ErrorArg("Server is not responding")
                   ELSE ErrorArg(calls[i].health.text) >>

\* the health route answered 404: nothing was posted
C29_Witness ==
  /\ revision = "part_004"
  /\ Len(calls) >= 1
  /\ calls[1].pc = "done"
  /\ calls[1].health.kind = "notOk"
  /\ calls[1].posts = 0
  /\ calls[1].gets = 1
  /\ calls[1].onSubmits = <<ErrorArg("Server is not responding")>>
  /\ error = JStr("Server is not responding")

====
